---- MODULE Spec2Model ----
(***************************************************************************)
(* Model of src/src/day18.rs: the key-collecting maze solver               *)
(* (steps_to_gather_all_keys = grid parse + per-source breadth-first       *)
(* reduction + shortest_path over (key, gathered keys)), and part2's       *)
(* quadrant split.                                                         *)
(*                                                                         *)
(* Text is a sequence of character codes (ASCII), so that the ranges       *)
(* 'a'..='z' / 'A'..='Z', to_ascii_lowercase and the bit shift of          *)
(* Key::bit_mask are computed as the code computes them.  A position is    *)
(* <<x, y>>.  A KeyBitset is a natural number.                             *)
(***************************************************************************)
EXTENDS Integers, Sequences, FiniteSets, TLC

\* ---------------------------------------------------------------- characters
CH_NL == 10
CH_WALL == 35
CH_FLOOR == 46
CH_INVALID == 63
CH_START == 64
CH_UPPER_A == 65
CH_UPPER_Z == 90
CH_LOWER_A == 97
CH_LOWER_Z == 122
CH_DIGIT_0 == 48

IsLower(c) == c >= CH_LOWER_A /\ c <= CH_LOWER_Z
IsUpper(c) == c >= CH_UPPER_A /\ c <= CH_UPPER_Z
to_ascii_lowercase(c) == IF IsUpper(c) THEN c + (CH_LOWER_A - CH_UPPER_A) ELSE c

\* ------------------------------------------------------------------ bitsets
RECURSIVE BitOr(_, _)
BitOr(a, b) ==
    IF a = 0 THEN b
    ELSE IF b = 0 THEN a
    ELSE (IF a % 2 = 1 \/ b % 2 = 1 THEN 1 ELSE 0) + 2 * BitOr(a \div 2, b \div 2)

RECURSIVE BitAnd(_, _)
BitAnd(a, b) ==
    IF a = 0 \/ b = 0 THEN 0
    ELSE (IF a % 2 = 1 /\ b % 2 = 1 THEN 1 ELSE 0) + 2 * BitAnd(a \div 2, b \div 2)

\* Key::bit_mask: 1 << (value - 'a').
bit_mask(value) == 2 ^ (value - CH_LOWER_A)

\* usize::max_value(); 2^31 - 1 here, above every step total the model reaches.
USIZE_MAX == 2147483647

\* ------------------------------------------------------------------- text
\* str::lines(): the segments between newlines; a trailing newline ends the
\* last line and starts no new one.  (No text here holds a carriage return.)
lines(s) ==
    LET newlines == {i \in 1 .. Len(s) : s[i] = CH_NL}
        starts == {b \in {1} \cup {i + 1 : i \in newlines} : b <= Len(s)}
        EndOf(b) == IF \E i \in newlines : i >= b
                    THEN (CHOOSE i \in newlines : i >= b /\ \A j \in newlines : j >= b => i <= j) - 1
                    ELSE Len(s)
    IN [k \in 1 .. Cardinality(starts) |->
          LET b == CHOOSE c \in starts : Cardinality({d \in starts : d < c}) = k - 1
          IN SubSeq(s, b, EndOf(b))]

\* usize::to_string: the decimal digits.
RECURSIVE to_string(_)
to_string(n) ==
    IF n < 10 THEN <<CH_DIGIT_0 + n>>
    ELSE Append(to_string(n \div 10), CH_DIGIT_0 + (n % 10))

\* --------------------------------------------------------------- the parse
DIRECTIONS == << <<0, 1>>, <<0, -1>>, <<-1, 0>>, <<1, 0>> >>

\* The (x, y) of every character of the text, by line and column.
Positions(ls) ==
    UNION { { <<x, y>> : x \in 0 .. (Len(ls[y + 1]) - 1) } : y \in 0 .. (Len(ls) - 1) }

CharAt(ls, p) == ls[p[2] + 1][p[1] + 1]

\* Enumeration order of lines().enumerate() / chars().enumerate().
RowMajorBefore(p, q) == p[2] < q[2] \/ (p[2] = q[2] /\ p[1] < q[1])

\* Variant of ParseMap: the entrance is stored as it is.
ParseMap_KeepStart(ls) ==
    [p \in {q \in Positions(ls) : CharAt(ls, q) # CH_WALL} |-> CharAt(ls, p)]

\* map after the parse: walls are left out, the entrance is stored as floor,
\* every other character is stored as it is.
ParseMap(ls) ==
    [p \in {q \in Positions(ls) : CharAt(ls, q) # CH_WALL} |->
        IF CharAt(ls, p) = CH_START THEN CH_FLOOR ELSE CharAt(ls, p)]

\* found_keys after the parse: HashMap::insert keeps the last position
\* inserted for a key, in enumeration order.
ParseFoundKeys(ls) ==
    LET ps == Positions(ls)
        ks == {CharAt(ls, p) : p \in {q \in ps : CharAt(ls, q) = CH_START \/ IsLower(CharAt(ls, q))}}
    IN [k \in ks |->
          CHOOSE p \in ps : /\ CharAt(ls, p) = k
                            /\ \A q \in ps : CharAt(ls, q) = k => (q = p \/ RowMajorBefore(q, p))]

\* all_keys_bitset after the parse: the OR of bit_mask over the key cells,
\* taken letter by letter (OR-ing a letter's bit again changes nothing).
RECURSIVE OrKeyBits(_)
OrKeyBits(letters) ==
    IF letters = {} THEN 0
    ELSE LET k == CHOOSE j \in letters : TRUE
         IN BitOr(bit_mask(k), OrKeyBits(letters \ {k}))

ParseAllKeys(input) ==
    OrKeyBits({input[i] : i \in {j \in 1 .. Len(input) : IsLower(input[j])}})

\* ---------------------------------------------------------- graph reducer
Edge(target_key, steps, needed_keys) ==
    [target_key |-> target_key, steps |-> steps, needed_keys |-> needed_keys]

\* Variants of DoorIsNeeded: every door counts; a door counts only if its
\* key already has an entry in adjacency_list.
DoorIsNeeded_Always(fk, adj, needed_key) == TRUE
DoorIsNeeded_IfReduced(fk, adj, needed_key) == needed_key \in DOMAIN adj

\* found_keys.contains_key(&needed_key): a door counts only if its key is in
\* this grid.
DoorIsNeeded(fk, adj, needed_key) == needed_key \in DOMAIN fk

\* Variant of PushEdge: the entry is set to the new edge alone (insert for
\* entry().or_insert_with().push()).
PushEdge_Insert(adj, this_key, edge) ==
    (this_key :> <<edge>>) @@ adj

\* adjacency_list.entry(this_key).or_insert_with(Vec::new).push(edge)
PushEdge(adj, this_key, edge) ==
    IF this_key \in DOMAIN adj
    THEN [adj EXCEPT ![this_key] = Append(@, edge)]
    ELSE (this_key :> <<edge>>) @@ adj

\* Variant of NewSteps: two steps for a cell.
NewSteps_Two(steps) == steps + 2

\* steps + 1 for the cell entered.
NewSteps(steps) == steps + 1

\* Variant of IsInvalidEntry: no map entry is refused.
IsInvalidEntry_Never(c) == FALSE

\* The last match arm, Some(c) => panic!("Invalid map entry"): an entry that
\* is no door, no key and no floor.
IsInvalidEntry(c) == ~(IsUpper(c) \/ IsLower(c) \/ c = CH_FLOOR)

\* One pass of 'key_direction_loop for the popped (position, needed_keys,
\* steps), directions i..4.  st = [to_visit, visited_positions, adj, invalid];
\* invalid # 0 is the character of the panic "Invalid map entry".
RECURSIVE DirectionLoop(_, _, _, _, _, _)
DirectionLoop(m, fk, this_key, cur, st, i) ==
    IF i > Len(DIRECTIONS) \/ st.invalid # 0 THEN st
    ELSE
      LET new_position == <<cur[1][1] + DIRECTIONS[i][1], cur[1][2] + DIRECTIONS[i][2]>>
      IN IF new_position \notin DOMAIN m
         THEN DirectionLoop(m, fk, this_key, cur, st, i + 1)
         ELSE
           LET c == m[new_position]
               needed_key == to_ascii_lowercase(c)
               new_needed_keys ==
                   IF IsUpper(c) /\ DoorIsNeeded(fk, st.adj, needed_key)
                   THEN BitOr(cur[2], bit_mask(needed_key))
                   ELSE cur[2]
               new_steps == NewSteps(cur[3])
               new_state == <<new_position, new_needed_keys, new_steps>>
           IN IF IsInvalidEntry(c)
              THEN [st EXCEPT !.invalid = c]
              ELSE IF new_position \in st.visited_positions
              THEN DirectionLoop(m, fk, this_key, cur, st, i + 1)
              ELSE DirectionLoop(m, fk, this_key, cur,
                     [to_visit |-> Append(st.to_visit, new_state),
                      visited_positions |-> st.visited_positions \cup {new_position},
                      adj |-> IF IsLower(c)
                              THEN PushEdge(st.adj, this_key, Edge(c, new_steps, new_needed_keys))
                              ELSE st.adj,
                      invalid |-> 0],
                     i + 1)

\* to_visit.pop_front()
PopFront(q) == [head |-> Head(q), rest |-> Tail(q)]

\* `while let Some(..) = to_visit.pop_front()`: the turns of the loop until
\* the queue is empty or a turn panics.
RECURSIVE BfsLoop(_, _, _, _)
BfsLoop(m, fk, this_key, st) ==
    IF st.invalid # 0 \/ st.to_visit = <<>> THEN st
    ELSE LET pf == PopFront(st.to_visit)
             turn == DirectionLoop(m, fk, this_key, pf.head,
                                   [st EXCEPT !.to_visit = pf.rest], 1)
         IN IF turn.invalid # 0 THEN turn
            ELSE BfsLoop(m, fk, this_key, turn)

\* The body of the loop over found_keys for one source: the search from
\* this_key's position, adding this_key's edges to adj.
ReduceFrom(m, fk, adj, this_key) ==
    BfsLoop(m, fk, this_key,
            [to_visit |-> << <<fk[this_key], 0, 0>> >>,
             visited_positions |-> {fk[this_key]},
             adj |-> adj,
             invalid |-> 0])

\* ------------------------------------------------------------------ solver
Vertex(at_key, steps, gathered_keys) ==
    [at_key |-> at_key, steps |-> steps, gathered_keys |-> gathered_keys]

Cmp(a, b) == IF a < b THEN -1 ELSE IF a > b THEN 1 ELSE 0

\* Ord for Vertex: fewer steps is greater; then the greater gathered_keys,
\* then the greater at_key.
Vertex_cmp(self, other) ==
    IF Cmp(other.steps, self.steps) # 0 THEN Cmp(other.steps, self.steps)
    ELSE IF Cmp(self.gathered_keys, other.gathered_keys) # 0
         THEN Cmp(self.gathered_keys, other.gathered_keys)
    ELSE Cmp(self.at_key, other.at_key)

\* Variant of HeapTop: the order on steps not reversed.
HeapTop_MostSteps(tv) == CHOOSE v \in tv : \A w \in tv : Vertex_cmp(w, v) >= 0

\* BinaryHeap::pop: the greatest vertex.
HeapTop(tv) == CHOOSE v \in tv : \A w \in tv : Vertex_cmp(v, w) >= 0

\* Variant of AllNeededKeysGathered: the mask compared with the wrong side.
AllNeededKeysGathered_Swapped(edge, current) ==
    BitAnd(edge.needed_keys, current.gathered_keys) = current.gathered_keys

\* edge.needed_keys & current.gathered_keys == edge.needed_keys
AllNeededKeysGathered(edge, current) ==
    BitAnd(edge.needed_keys, current.gathered_keys) = edge.needed_keys

\* cost_for_keys.entry(..).or_insert(usize::max_value())
CurrentCost(cost, pair) == IF pair \in DOMAIN cost THEN cost[pair] ELSE USIZE_MAX

\* Variant of Improves: every successor is pushed.
Improves_Always(next_steps, current_cost) == TRUE

\* next.steps < *current_cost
Improves(next_steps, current_cost) == next_steps < current_cost

\* The loop over the edges of current.at_key, edges i..; st = [to_visit, cost].
RECURSIVE RelaxEdges(_, _, _, _)
RelaxEdges(edges, current, st, i) ==
    IF i > Len(edges) THEN st
    ELSE
      LET edge == edges[i]
      IN IF ~AllNeededKeysGathered(edge, current)
         THEN RelaxEdges(edges, current, st, i + 1)
         ELSE
           LET next == Vertex(edge.target_key,
                              current.steps + edge.steps,
                              BitOr(current.gathered_keys, bit_mask(edge.target_key)))
               pair == <<edge.target_key, next.gathered_keys>>
               current_cost == CurrentCost(st.cost, pair)
           IN IF Improves(next.steps, current_cost)
              THEN RelaxEdges(edges, current,
                       [to_visit |-> st.to_visit \cup {next},
                        cost |-> (pair :> next.steps) @@ st.cost],
                       i + 1)
              ELSE RelaxEdges(edges, current,
                       [st EXCEPT !.cost = (pair :> current_cost) @@ st.cost],
                       i + 1)

\* The body of `while let Some(current) = to_visit.pop()` for the popped
\* vertex: st = [to_visit, cost]; the result says how the turn ended.
TurnOn(adj, all_keys, st, current) ==
    LET rest == st.to_visit \ {current}
    IN IF current.gathered_keys = all_keys
       THEN [kind |-> "some", steps |-> current.steps, current |-> current,
             to_visit |-> rest, cost |-> st.cost]
       ELSE IF current.at_key \notin DOMAIN adj
       THEN [kind |-> "unwrap_none", steps |-> 0, current |-> current,
             to_visit |-> rest, cost |-> st.cost]
       ELSE LET r == RelaxEdges(adj[current.at_key], current,
                                [to_visit |-> rest, cost |-> st.cost], 1)
            IN [kind |-> "continue", steps |-> 0, current |-> current,
                to_visit |-> r.to_visit, cost |-> r.cost]

\* One turn of the loop on a non-empty queue.
PopTurn(adj, all_keys, st) == TurnOn(adj, all_keys, st, HeapTop(st.to_visit))

InitialVertex == Vertex(CH_START, 0, 0)

\* shortest_path as a whole: the turns of the loop until one returns or the
\* queue is empty (None).
RECURSIVE SolveLoop(_, _, _)
SolveLoop(adj, all_keys, st) ==
    IF st.to_visit = {}
    THEN [kind |-> "none", steps |-> 0]
    ELSE LET r == PopTurn(adj, all_keys, st)
         IN IF r.kind = "continue"
            THEN SolveLoop(adj, all_keys, [to_visit |-> r.to_visit, cost |-> r.cost])
            ELSE [kind |-> r.kind, steps |-> r.steps]

shortest_path(adj, all_keys) ==
    SolveLoop(adj, all_keys, [to_visit |-> {InitialVertex}, cost |-> <<>>])

\* The loop over found_keys as a whole, iterating the keys in ascending
\* order (one of the orders a HashMap may take).
RECURSIVE ReduceAll(_, _, _, _)
ReduceAll(m, fk, adj, todo) ==
    IF todo = {} THEN [adj |-> adj, invalid |-> 0]
    ELSE LET this_key == CHOOSE k \in todo : \A j \in todo : k <= j
             r == ReduceFrom(m, fk, adj, this_key)
         IN IF r.invalid # 0 THEN [adj |-> r.adj, invalid |-> r.invalid]
            ELSE ReduceAll(m, fk, r.adj, todo \ {this_key})

\* steps_to_gather_all_keys as a whole: how the call ends (panic = "" and
\* result = <<n>> when it returns n) and the adjacency list it built.
steps_to_gather_all_keys(input) ==
    LET ls == lines(input)
        fk == ParseFoundKeys(ls)
        red == ReduceAll(ParseMap(ls), fk, <<>>, DOMAIN fk)
        sol == shortest_path(red.adj, ParseAllKeys(input))
    IN IF red.invalid # 0
       THEN [panic |-> "InvalidMapEntry", result |-> <<>>, adj |-> red.adj]
       ELSE IF sol.kind = "some"
       THEN [panic |-> "", result |-> <<sol.steps>>, adj |-> red.adj]
       ELSE IF sol.kind = "none"
       THEN [panic |-> "Unreachable", result |-> <<>>, adj |-> red.adj]
       ELSE [panic |-> "unwrap_none", result |-> <<>>, adj |-> red.adj]

\* ------------------------------------------------------------------- part2
\* The character part2 writes for the cell at offset (dx, dy) = centre - (x, y).
ReplacedChar(c, dx, dy) ==
    IF (dx = 0 /\ dy = 0) \/ (dx = 1 /\ dy = 0) \/ (dx = -1 /\ dy = 0)
       \/ (dx = 0 /\ dy = 1) \/ (dx = 0 /\ dy = -1)
    THEN CH_WALL
    ELSE IF (dx = 1 \/ dx = -1) /\ (dy = 1 \/ dy = -1)
    THEN CH_START
    ELSE c

\* Variant of CenterOf: the half rounded up.
CenterOf_RoundUp(n) == (n + 1) \div 2

\* center_x = num_columns / 2, center_y = num_rows / 2.
CenterOf(n) == n \div 2

\* The characters of line y (0-based) that go to the left (x <= center_x) or
\* to the right half, rewritten.
RECURSIVE HalfLine(_, _, _, _, _, _)
HalfLine(line, y, cx, cy, left, i) ==
    IF i > Len(line) THEN <<>>
    ELSE LET x == i - 1
             rest == HalfLine(line, y, cx, cy, left, i + 1)
         IN IF (x <= cx) = left
            THEN <<ReplacedChar(line[i], cx - x, cy - y)>> \o rest
            ELSE rest

\* One of the four strings: the lines with (y <= center_y) = top, the
\* characters with (x <= center_x) = left, a newline after each line.
RECURSIVE QuadrantText(_, _, _, _, _, _)
QuadrantText(ls, cx, cy, top, left, i) ==
    IF i > Len(ls) THEN <<>>
    ELSE LET y == i - 1
             rest == QuadrantText(ls, cx, cy, top, left, i + 1)
         IN IF (y <= cy) = top
            THEN HalfLine(ls[i], y, cx, cy, left, 1) \o <<CH_NL>> \o rest
            ELSE rest

\* map_top_left, map_top_right, map_bottom_left, map_bottom_right, in the
\* order part2 solves them.
SplitQuadrants(input) ==
    LET ls == lines(input)
        center_y == CenterOf(Len(ls))
        center_x == CenterOf(Len(ls[1]))
    IN << QuadrantText(ls, center_x, center_y, TRUE, TRUE, 1),
          QuadrantText(ls, center_x, center_y, TRUE, FALSE, 1),
          QuadrantText(ls, center_x, center_y, FALSE, TRUE, 1),
          QuadrantText(ls, center_x, center_y, FALSE, FALSE, 1) >>

\* ------------------------------------------------------------------ inputs
\* Bounds of the input family: the length of a floor plan's rows, the number
\* of items (keys, doors, a stray character) put on a part1 grid and on a
\* part2 grid.
MaxCols == 4
MaxItems == 3
MaxItems2 == 1

KeyLetters == {CH_LOWER_A, CH_LOWER_A + 1}
Items == KeyLetters \cup {k - (CH_LOWER_A - CH_UPPER_A) : k \in KeyLetters} \cup {CH_INVALID}

\* Floor plans: a corridor, a corridor cut by a wall, and a corridor with a
\* two-cell side loop under its left end.
Corridor == << [i \in 1 .. MaxCols |-> CH_FLOOR] >>
CutCorridor == << [i \in 1 .. MaxCols |-> IF i = MaxCols - 1 THEN CH_WALL ELSE CH_FLOOR] >>
Loop == << [i \in 1 .. MaxCols |-> CH_FLOOR],
           [i \in 1 .. MaxCols |-> IF i <= 2 THEN CH_FLOOR ELSE CH_WALL] >>
Layouts == {Corridor, CutCorridor, Loop}

\* The part2 floor plan: three rows, the middle one open, the outer columns
\* open, so that every quadrant keeps open cells beside its new entrance.
Plus == << [i \in 1 .. MaxCols + 1 |-> IF i = 1 \/ i = MaxCols + 1 THEN CH_FLOOR ELSE CH_WALL],
           [i \in 1 .. MaxCols + 1 |-> CH_FLOOR],
           [i \in 1 .. MaxCols + 1 |-> IF i = 1 \/ i = MaxCols + 1 THEN CH_FLOOR ELSE CH_WALL] >>
Layouts2 == {Plus}

FloorCells(layout) == {p \in Positions(layout) : CharAt(layout, p) = CH_FLOOR}

RECURSIVE JoinLines(_, _)
JoinLines(ls, i) ==
    IF i > Len(ls) THEN <<>>
    ELSE IF i = Len(ls) THEN ls[i]
    ELSE ls[i] \o <<CH_NL>> \o JoinLines(ls, i + 1)

\* The text of a floor plan with the entrance at s and item k at f[k].
GridText(layout, s, f) ==
    JoinLines([y \in 1 .. Len(layout) |->
                 [x \in 1 .. Len(layout[y]) |->
                    LET p == <<x - 1, y - 1>>
                    IN IF p = s THEN CH_START
                       ELSE IF \E k \in DOMAIN f : f[k] = p
                            THEN CHOOSE k \in DOMAIN f : f[k] = p
                            ELSE layout[y][x]]], 1)

Placements(cells, n) ==
    UNION { {f \in [S -> cells] : \A j, k \in S : j # k => f[j] # f[k]}
            : S \in {T \in SUBSET Items : Cardinality(T) <= n} }

GridsOn(layouts, n) ==
    UNION { UNION { {GridText(layout, s, f) : f \in Placements(FloorCells(layout) \ {s}, n)}
                    : s \in FloorCells(layout) }
            : layout \in layouts }

InputGrids == GridsOn(Layouts, MaxItems)
InputGrids2 == GridsOn(Layouts2, MaxItems2)

\* ----------------------------------------------------------- state machine
VARIABLES
    op,               \* "part1" or "part2": the public operation called
    input_string,     \* its argument
    pc,               \* "start", "parse", "reduce", "solve", "done", "panicked"
    quadrants,        \* part2: the four strings
    quadrant_index,   \* part2: the string being solved, 1..4 (0 in part1)
    partial_sum,      \* part2: the sum of the results so far
    current_input,    \* the argument of the running steps_to_gather_all_keys
    map, found_keys, all_keys_bitset,
    pending,          \* the keys of found_keys the reduction has yet to iterate
    adjacency_list,
    to_visit, cost_for_keys,
    solver_result,    \* shortest_path's Option<usize>: <<>> (none yet, None) or <<n>>
    output,           \* the String returned
    panic,            \* "", or the panic that ended the call
    \* day23.rs, run_simulation
    part1,                          \* its bool parameter
    net_pc,                         \* "off", "call", "loop", "returned", "panicked"
    input_queues,                   \* one VecDeque of packets per computer
    last_packet_to_nat,
    last_emitted_packet_from_nat,
    net_output,                     \* the String returned
    sent_to_nat,                    \* history: the packets computers sent to address 255
    nat_delivered                   \* history: the packets the NAT pushed on queue 0

vars == <<op, input_string, pc, quadrants, quadrant_index, partial_sum,
          current_input, map, found_keys, all_keys_bitset, pending,
          adjacency_list, to_visit, cost_for_keys, solver_result, output, panic,
          part1, net_pc, input_queues, last_packet_to_nat,
          last_emitted_packet_from_nat, net_output, sent_to_nat, nat_delivered>>

netVars == <<part1, net_pc, input_queues, last_packet_to_nat,
             last_emitted_packet_from_nat, net_output, sent_to_nat, nat_delivered>>

callVars == <<map, found_keys, all_keys_bitset, pending, adjacency_list,
              to_visit, cost_for_keys, solver_result>>

Empty == <<>>

\* run_simulation has not been called.
NetOff ==
    /\ part1 = FALSE
    /\ net_pc = "off"
    /\ input_queues = <<>>
    /\ last_packet_to_nat = <<>>
    /\ last_emitted_packet_from_nat = <<>>
    /\ net_output = <<>>
    /\ sent_to_nat = {}
    /\ nat_delivered = {}

InitWith(o, input) ==
    /\ NetOff
    /\ op = o
    /\ input_string = input
    /\ pc = "start"
    /\ quadrants = <<>>
    /\ quadrant_index = 0
    /\ partial_sum = 0
    /\ current_input = <<>>
    /\ map = Empty
    /\ found_keys = Empty
    /\ all_keys_bitset = 0
    /\ pending = {}
    /\ adjacency_list = Empty
    /\ to_visit = {}
    /\ cost_for_keys = Empty
    /\ solver_result = <<>>
    /\ output = <<>>
    /\ panic = ""

Init ==
    \/ \E input \in InputGrids : InitWith("part1", input)
    \/ \E input \in InputGrids2 : InitWith("part2", input)

\* part1: steps_to_gather_all_keys(input_string)
Part1Call ==
    /\ UNCHANGED netVars
    /\ pc = "start" /\ op = "part1"
    /\ current_input' = input_string
    /\ pc' = "parse"
    /\ UNCHANGED <<op, input_string, quadrants, quadrant_index, partial_sum,
                   output, panic>>
    /\ UNCHANGED callVars

\* part2 up to the first steps_to_gather_all_keys call; lines().next().unwrap()
\* panics on a text without lines.
Part2Split ==
    /\ UNCHANGED netVars
    /\ pc = "start" /\ op = "part2"
    /\ IF lines(input_string) = <<>>
       THEN /\ pc' = "panicked" /\ panic' = "unwrap_none"
            /\ UNCHANGED <<quadrants, quadrant_index, current_input>>
       ELSE /\ quadrants' = SplitQuadrants(input_string)
            /\ quadrant_index' = 1
            /\ current_input' = quadrants'[1]
            /\ pc' = "parse"
            /\ panic' = panic
    /\ UNCHANGED <<op, input_string, partial_sum, output>>
    /\ UNCHANGED callVars

\* Lines 39-70: the parse of the text into map, found_keys, all_keys_bitset.
Parse ==
    /\ UNCHANGED netVars
    /\ pc = "parse"
    /\ map' = ParseMap(lines(current_input))
    /\ found_keys' = ParseFoundKeys(lines(current_input))
    /\ all_keys_bitset' = ParseAllKeys(current_input)
    /\ pending' = DOMAIN found_keys'
    /\ adjacency_list' = Empty
    /\ to_visit' = {}
    /\ cost_for_keys' = Empty
    /\ solver_result' = <<>>
    /\ pc' = "reduce"
    /\ UNCHANGED <<op, input_string, quadrants, quadrant_index, partial_sum,
                   current_input, output, panic>>

\* One iteration of `for (&this_key, &this_key_position) in found_keys.iter()`:
\* a HashMap iterates in an order of its own, so any pending key may be next.
ReduceSource ==
    /\ UNCHANGED netVars
    /\ pc = "reduce"
    /\ \E this_key \in pending :
         LET r == ReduceFrom(map, found_keys, adjacency_list, this_key)
         IN IF r.invalid # 0
            THEN /\ pc' = "panicked" /\ panic' = "InvalidMapEntry"
                 /\ UNCHANGED <<pending, adjacency_list>>
            ELSE /\ adjacency_list' = r.adj
                 /\ pending' = pending \ {this_key}
                 /\ UNCHANGED <<pc, panic>>
    /\ UNCHANGED <<op, input_string, quadrants, quadrant_index, partial_sum,
                   current_input, map, found_keys, all_keys_bitset,
                   to_visit, cost_for_keys, solver_result, output>>

\* Lines 160-167: shortest_path is entered and pushes the start vertex.
EnterSolver ==
    /\ UNCHANGED netVars
    /\ pc = "reduce" /\ pending = {}
    /\ to_visit' = {InitialVertex}
    /\ cost_for_keys' = Empty
    /\ pc' = "solve"
    /\ UNCHANGED <<op, input_string, quadrants, quadrant_index, partial_sum,
                   current_input, map, found_keys, all_keys_bitset, pending,
                   adjacency_list, solver_result, output, panic>>

\* One turn of the solver's loop.  Some(steps) returns through
\* steps_to_gather_all_keys to part1 (to_string) or to part2 (the sum, then
\* the next string or to_string of the sum).
Pop ==
    /\ UNCHANGED netVars
    /\ pc = "solve" /\ to_visit # {}
    /\ LET r == PopTurn(adjacency_list, all_keys_bitset,
                        [to_visit |-> to_visit, cost |-> cost_for_keys])
       IN /\ to_visit' = r.to_visit
          /\ cost_for_keys' = r.cost
          /\ solver_result' = IF r.kind = "some" THEN <<r.steps>> ELSE <<>>
          /\ IF r.kind = "continue"
             THEN UNCHANGED <<pc, panic, output, partial_sum, quadrant_index, current_input>>
             ELSE IF r.kind = "unwrap_none"
             THEN /\ pc' = "panicked" /\ panic' = "unwrap_none"
                  /\ UNCHANGED <<output, partial_sum, quadrant_index, current_input>>
             ELSE IF op = "part1"
             THEN /\ pc' = "done" /\ output' = to_string(r.steps)
                  /\ UNCHANGED <<panic, partial_sum, quadrant_index, current_input>>
             ELSE IF quadrant_index < Len(quadrants)
             THEN /\ partial_sum' = partial_sum + r.steps
                  /\ quadrant_index' = quadrant_index + 1
                  /\ current_input' = quadrants[quadrant_index + 1]
                  /\ pc' = "parse"
                  /\ UNCHANGED <<panic, output>>
             ELSE /\ partial_sum' = partial_sum + r.steps
                  /\ pc' = "done" /\ output' = to_string(partial_sum + r.steps)
                  /\ UNCHANGED <<panic, quadrant_index, current_input>>
    /\ UNCHANGED <<op, input_string, quadrants, map, found_keys, all_keys_bitset,
                   pending, adjacency_list>>

\* The queue ran empty: shortest_path returns None and
\* expect("Not possible to gather all keys") panics.
QueueEmpty ==
    /\ UNCHANGED netVars
    /\ pc = "solve" /\ to_visit = {}
    /\ pc' = "panicked" /\ panic' = "Unreachable"
    /\ UNCHANGED <<op, input_string, quadrants, quadrant_index, partial_sum,
                   current_input, output>>
    /\ UNCHANGED callVars

Next == Part1Call \/ Part2Split \/ Parse \/ ReduceSource \/ EnterSolver \/ Pop \/ QueueEmpty

Spec == Init /\ [][Next]_vars

\* ======================================================================
\* Reference notions the claims are stated against.  They are written on
\* sets, apart from the queue-driven searches above.
\* ======================================================================
Neighbours4(p) ==
    { <<p[1] + 1, p[2]>>, <<p[1] - 1, p[2]>>, <<p[1], p[2] + 1>>, <<p[1], p[2] - 1>> }

ValidChar(c) == c = CH_WALL \/ c = CH_FLOOR \/ c = CH_START \/ IsLower(c) \/ IsUpper(c)
ValidGrid(input) == \A i \in 1 .. Len(input) : input[i] = CH_NL \/ ValidChar(input[i])
CountOf(input, c) == Cardinality({i \in 1 .. Len(input) : input[i] = c})
KeyLettersIn(input) == {input[i] : i \in {j \in 1 .. Len(input) : IsLower(input[j])}}
DoorLettersIn(input) == {input[i] : i \in {j \in 1 .. Len(input) : IsUpper(input[j])}}
CellsWith(ls, c) == {p \in Positions(ls) : CharAt(ls, p) = c}

\* The keys of a bitset, as a set of letters.
KeysOfMask(mask) ==
    {k \in CH_LOWER_A .. CH_LOWER_Z : (mask \div (2 ^ (k - CH_LOWER_A))) % 2 = 1}

MinOf(S) == CHOOSE n \in S : \A m \in S : n <= m

Terminal == pc = "done" \/ pc = "panicked"

\* ---- the grid-level problem: states (position, set of collected keys);
\* a step enters a 4-neighbour that is no wall and, if a door, one whose key
\* is collected or is not in the grid; entering a key cell collects it.
GridSuccessors(ls, keys, s) ==
    { <<q, IF IsLower(CharAt(ls, q)) THEN s[2] \cup {CharAt(ls, q)} ELSE s[2]>> :
        q \in { r \in Neighbours4(s[1]) \cap Positions(ls) :
                  /\ CharAt(ls, r) # CH_WALL
                  /\ IsUpper(CharAt(ls, r)) =>
                       (to_ascii_lowercase(CharAt(ls, r)) \in s[2]
                        \/ to_ascii_lowercase(CharAt(ls, r)) \notin keys) } }

RECURSIVE GridSearch(_, _, _, _, _)
GridSearch(ls, keys, frontier, seen, depth) ==
    IF \E s \in frontier : s[2] = keys THEN depth
    ELSE IF frontier = {} THEN -1
    ELSE LET next == (UNION {GridSuccessors(ls, keys, s) : s \in frontier}) \ seen
         IN GridSearch(ls, keys, next, seen \cup next, depth + 1)

\* The exact minimum number of moves that collects every key (-1: none does).
GridMinimum(input) ==
    LET ls == lines(input)
        st == << CHOOSE p \in Positions(ls) : CharAt(ls, p) = CH_START, {} >>
    IN GridSearch(ls, KeyLettersIn(input), {st}, {st}, 0)

\* ---- the edge-level problem: states (key, set of collected keys); an edge
\* of the state's key may be taken when its needed keys are all collected.
EdgeMoves(adj, s) ==
    IF s[1] \notin DOMAIN adj THEN {}
    ELSE { << <<adj[s[1]][i].target_key, s[2] \cup {adj[s[1]][i].target_key}>>,
              adj[s[1]][i].steps >> :
             i \in { j \in 1 .. Len(adj[s[1]]) :
                       KeysOfMask(adj[s[1]][j].needed_keys) \subseteq s[2] } }

\* One round of relaxation of the least totals D (a function on the states
\* found so far).
RelaxOnce(adj, D) ==
    LET moves == UNION { { <<m[1], D[s] + m[2]>> : m \in EdgeMoves(adj, s) } : s \in DOMAIN D }
        states == DOMAIN D \cup {m[1] : m \in moves}
    IN [s \in states |->
          MinOf( (IF s \in DOMAIN D THEN {D[s]} ELSE {})
                 \cup {m[2] : m \in {n \in moves : n[1] = s}} )]

RECURSIVE LeastTotals(_, _)
LeastTotals(adj, D) ==
    LET E == RelaxOnce(adj, D)
    IN IF E = D THEN D ELSE LeastTotals(adj, E)

\* The least total of an edge sequence from (start, {}) that ends with every
\* key of all_keys collected (-1: there is none).
EdgeMinimum(adj, all_keys) ==
    LET D == LeastTotals(adj, (<<CH_START, {}>> :> 0))
        goals == {s \in DOMAIN D : s[2] = KeysOfMask(all_keys)}
    IN IF goals = {} THEN -1 ELSE MinOf({D[s] : s \in goals})

\* ======================================================================
\* Claims
\* ======================================================================

\* C1: for every valid grid with one start, the value part1 returns is the
\* exact minimum number of moves of the grid-level problem.
C1_ReturnsExactMinimum ==
    (op = "part1" /\ pc = "done" /\ ValidGrid(input_string)
       /\ CountOf(input_string, CH_START) = 1)
    => output = to_string(GridMinimum(input_string))

\* C2: when shortest_path returns Some(n), n is the least total over all
\* sequences of permitted edges from the start with nothing collected to a
\* state with every key collected.
C2_SomeIsLeastEdgeTotal ==
    solver_result # <<>> => solver_result[1] = EdgeMinimum(adjacency_list, all_keys_bitset)

C2_Witness ==
    /\ solver_result # <<>>
    /\ Cardinality(KeysOfMask(all_keys_bitset)) >= 2
    /\ \E k \in DOMAIN adjacency_list : \E i \in 1 .. Len(adjacency_list[k]) :
          adjacency_list[k][i].needed_keys # 0
    /\ solver_result[1] = EdgeMinimum(adjacency_list, all_keys_bitset)

\* C3: whenever no state with every key collected can be reached by
\* permitted edges, the solver ends with Unreachable (None, the queue having
\* run empty) and returns no step count.
C3_NoGoalEndsUnreachable ==
    (/\ \/ solver_result # <<>>
        \/ (pc = "panicked" /\ panic \in {"Unreachable", "unwrap_none"} /\ current_input # <<>>)
     /\ EdgeMinimum(adjacency_list, all_keys_bitset) = -1)
    => (panic = "Unreachable" /\ solver_result = <<>>)

\* ---- C4
\* The cells a search from a source of found_keys walks: the closure of the
\* sources under stepping to a neighbour that holds floor, a key or a door.
Walkable(c) == c = CH_FLOOR \/ c = CH_START \/ IsLower(c) \/ IsUpper(c)

SourceCells(ls) ==
    {p \in Positions(ls) :
        /\ CharAt(ls, p) = CH_START \/ IsLower(CharAt(ls, p))
        /\ \A q \in Positions(ls) :
              CharAt(ls, q) = CharAt(ls, p) => (q = p \/ RowMajorBefore(q, p))}

RECURSIVE WalkedFrom(_, _)
WalkedFrom(ls, S) ==
    LET T == S \cup {q \in (UNION {Neighbours4(p) : p \in S}) \cap Positions(ls) :
                       Walkable(CharAt(ls, q))}
    IN IF T = S THEN S ELSE WalkedFrom(ls, T)

\* Some character outside #.@a-zA-Z is next to a walked cell.
LooksAtInvalid(input) ==
    LET ls == lines(input)
    IN \E p \in WalkedFrom(ls, SourceCells(ls)) :
         \E q \in Neighbours4(p) \cap Positions(ls) : ~ValidChar(CharAt(ls, q))

\* C4 as stated: every grid that holds a character outside #.@a-zA-Z,
\* wherever it is, fails with InvalidMapEntry.
C4_AnyInvalidCharFails ==
    (op = "part1" /\ Terminal /\ ~ValidGrid(input_string))
    => (pc = "panicked" /\ panic = "InvalidMapEntry" /\ output = <<>>)

\* C4 amended: a call fails with InvalidMapEntry, and returns no step count,
\* exactly when a character outside #.@a-zA-Z is next to a cell that the
\* search from the start or from a key walks; such a character anywhere
\* else is never looked at.
C4_InvalidCharFailsIffSearched ==
    /\ (pc \in {"solve", "done", "panicked"} /\ LooksAtInvalid(current_input))
         => (pc = "panicked" /\ panic = "InvalidMapEntry" /\ output = <<>>)
    /\ (pc = "panicked" /\ panic = "InvalidMapEntry") => LooksAtInvalid(current_input)

C4_Witness ==
    /\ op = "part1" /\ pc = "panicked" /\ panic = "InvalidMapEntry"
    /\ LooksAtInvalid(input_string)
    /\ KeyLettersIn(input_string) # {}

\* ---- C5, C9: a floor cell replaced by a door letter
FloorIndices(input) == {i \in 1 .. Len(input) : input[i] = CH_FLOOR}
DoorOf(k) == k - (CH_LOWER_A - CH_UPPER_A)
WithDoor(input, i, door) == [input EXCEPT ![i] = door]

\* C5: replacing a floor cell of a valid grid by a door whose key is not in
\* the grid leaves every edge of the reduced graph and the final answer
\* unchanged.
C5_AbsentKeyDoorIsInert ==
    (op = "part1" /\ Terminal /\ ValidGrid(input_string))
    => \A i \in FloorIndices(input_string) :
         \A k \in KeyLetters \ KeyLettersIn(input_string) :
           LET v == steps_to_gather_all_keys(WithDoor(input_string, i, DoorOf(k)))
           IN /\ v.adj = adjacency_list
              /\ v.result = solver_result
              /\ v.panic = panic

\* A grid that already holds a door without its key, between the start and
\* a key, and a floor cell to put a second one on.
C5_Witness ==
    /\ op = "part1" /\ pc = "done" /\ ValidGrid(input_string)
    /\ FloorIndices(input_string) # {}
    /\ \E d \in DoorLettersIn(input_string) :
          to_ascii_lowercase(d) \notin KeyLettersIn(input_string)
    /\ KeyLetters \ KeyLettersIn(input_string) # {}
    /\ solver_result # <<>> /\ solver_result[1] >= 2

\* ---- C6
RECURSIVE WalkDistance(_, _, _, _, _)
WalkDistance(ls, frontier, seen, target, depth) ==
    IF target \in frontier THEN depth
    ELSE IF frontier = {} THEN -1
    ELSE LET next == {q \in (UNION {Neighbours4(p) : p \in frontier}) \cap Positions(ls) :
                        CharAt(ls, q) # CH_WALL} \ seen
         IN WalkDistance(ls, next, seen \cup next, target, depth + 1)

\* The length of a shortest 4-connected path from the start cell to the
\* cell of key k (-1: there is none).
StartToKey(input, k) ==
    LET ls == lines(input)
        from == CHOOSE p \in Positions(ls) : CharAt(ls, p) = CH_START
        to == CHOOSE p \in Positions(ls) : CharAt(ls, p) = k
    IN WalkDistance(ls, {from}, {from}, to, 0)

OneKeyNoDoors(input) ==
    /\ ValidGrid(input)
    /\ CountOf(input, CH_START) = 1
    /\ Cardinality({i \in 1 .. Len(input) : IsLower(input[i])}) = 1
    /\ DoorLettersIn(input) = {}
    /\ \A k \in KeyLettersIn(input) : StartToKey(input, k) >= 0

\* C6: on a valid grid with exactly one key, no doors and the key reachable
\* from the start, the answer is the shortest 4-connected path length from
\* the start cell to the key cell.
C6_OneKeyAnswerIsDistance ==
    (op = "part1" /\ Terminal /\ OneKeyNoDoors(input_string))
    => /\ pc = "done"
       /\ \A k \in KeyLettersIn(input_string) :
             output = to_string(StartToKey(input_string, k))

C6_Witness ==
    /\ op = "part1" /\ pc = "done" /\ OneKeyNoDoors(input_string)
    /\ Len(lines(input_string)) = 2
    /\ \A k \in KeyLettersIn(input_string) : StartToKey(input_string, k) >= 3

\* ---- C7
\* Every way shortest_path can end when, at each turn, any queued vertex
\* with the fewest steps may be the one popped.
MinStepVertices(tv) == {v \in tv : \A w \in tv : v.steps <= w.steps}

RECURSIVE AnyTieResults(_, _, _)
AnyTieResults(adj, all_keys, st) ==
    IF st.to_visit = {} THEN {[kind |-> "none", steps |-> 0]}
    ELSE UNION { LET r == TurnOn(adj, all_keys, st, v)
                 IN IF r.kind = "continue"
                    THEN AnyTieResults(adj, all_keys, [to_visit |-> r.to_visit, cost |-> r.cost])
                    ELSE {[kind |-> r.kind, steps |-> r.steps]}
                 : v \in MinStepVertices(st.to_visit) }

ResultKind ==
    IF solver_result # <<>> THEN [kind |-> "some", steps |-> solver_result[1]]
    ELSE IF panic = "Unreachable" THEN [kind |-> "none", steps |-> 0]
    ELSE [kind |-> panic, steps |-> 0]

\* C7: the result is a function of the grid alone: whatever order the
\* reduction iterates found_keys in, the adjacency list and the way the call
\* ends are those of the run that iterates in ascending order, and whatever
\* order equal-cost vertices leave the queue in, the solver ends the same way.
C7_ResultIsFunctionOfGrid ==
    /\ (op = "part1" /\ Terminal)
         => LET v == steps_to_gather_all_keys(input_string)
            IN /\ v.panic = panic
               /\ v.result = solver_result
               /\ (pc = "done" => output = to_string(v.result[1]))
               /\ (panic # "InvalidMapEntry" => v.adj = adjacency_list)
    /\ (op = "part1" /\ Terminal /\ panic # "InvalidMapEntry")
         => AnyTieResults(adjacency_list, all_keys_bitset,
                          [to_visit |-> {InitialVertex}, cost |-> <<>>]) = {ResultKind}

\* A finished run whose reduction had several orders to take and met a door
\* whose key is in the grid.
C7_Witness ==
    /\ op = "part1" /\ pc = "done"
    /\ Cardinality(DOMAIN found_keys) >= 3
    /\ \E k \in DOMAIN adjacency_list : \E i \in 1 .. Len(adjacency_list[k]) :
          adjacency_list[k][i].needed_keys # 0

\* ---- C8
\* The character part2 wrote for position p, read back from the four strings.
QuadrantChar(ls, p) ==
    LET cx == CenterOf(Len(ls[1]))
        cy == CenterOf(Len(ls))
        q == (IF p[2] <= cy THEN 0 ELSE 2) + (IF p[1] <= cx THEN 1 ELSE 2)
        row == IF p[2] <= cy THEN p[2] ELSE p[2] - cy - 1
        col == IF p[1] <= cx THEN p[1] ELSE p[1] - cx - 1
    IN lines(quadrants[q])[row + 1][col + 1]

\* What the rewrite around the start s leaves at position p that held c.
RewrittenAround(s, p, c) ==
    IF p = s \/ p \in Neighbours4(s) THEN CH_WALL
    ELSE IF (p[1] - s[1] = 1 \/ p[1] - s[1] = -1) /\ (p[2] - s[2] = 1 \/ p[2] - s[2] = -1)
    THEN CH_START
    ELSE c

\* C8: in part2 the 3x3 region rewritten is the one centred on the original
\* start marker, for every input grid with a single start marker.
C8_RewriteIsCentredOnStart ==
    (op = "part2" /\ quadrants # <<>> /\ CountOf(input_string, CH_START) = 1)
    => LET ls == lines(input_string)
           s == CHOOSE p \in Positions(ls) : CharAt(ls, p) = CH_START
       IN \A p \in Positions(ls) : QuadrantChar(ls, p) = RewrittenAround(s, p, CharAt(ls, p))

\* ---- C9
\* C9: replacing a floor cell of a valid grid by a door whose key is in the
\* grid never lowers the answer: if both grids have an answer, that of the
\* grid with the door is at least that of the grid without it.
C9_DoorNeverLowersAnswer ==
    (op = "part1" /\ pc = "done" /\ ValidGrid(input_string))
    => \A i \in FloorIndices(input_string) :
         \A k \in KeyLettersIn(input_string) :
           LET v == steps_to_gather_all_keys(WithDoor(input_string, i, DoorOf(k)))
           IN v.result # <<>> => v.result[1] >= solver_result[1]

\* A grid with an answer where some such door, put on a floor cell, leaves
\* an answer that is strictly greater.
C9_Witness ==
    /\ op = "part1" /\ pc = "done" /\ ValidGrid(input_string)
    /\ \E i \in FloorIndices(input_string) :
         \E k \in KeyLettersIn(input_string) :
           LET v == steps_to_gather_all_keys(WithDoor(input_string, i, DoorOf(k)))
           IN v.result # <<>> /\ v.result[1] > solver_result[1]

\* ---- C10: the documented examples (tests_part1)
\* "#########" / "    #b.A.@.a#" / "    #########": the test's text, with the
\* indentation its second and third lines have in the source.
Example8 ==
    << 35, 35, 35, 35, 35, 35, 35, 35, 35,
       CH_NL,
       32, 32, 32, 32, 35, 98, 46, 65, 46, 64, 46, 97, 35,
       CH_NL,
       32, 32, 32, 32, 35, 35, 35, 35, 35, 35, 35, 35, 35 >>

\* "########################" / "#f.D.E.e.C.b.A.@.a.B.c.#" /
\* "######################.#" / "#d.....................#" /
\* "########################"
Example86 ==
    << 35, 35, 35, 35, 35, 35, 35, 35, 35, 35, 35, 35, 35, 35, 35, 35, 35, 35, 35, 35, 35, 35, 35, 35,
       CH_NL,
       35, 102, 46, 68, 46, 69, 46, 101, 46, 67, 46, 98, 46, 65, 46, 64, 46, 97, 46, 66, 46, 99, 46, 35,
       CH_NL,
       35, 35, 35, 35, 35, 35, 35, 35, 35, 35, 35, 35, 35, 35, 35, 35, 35, 35, 35, 35, 35, 35, 46, 35,
       CH_NL,
       35, 100, 46, 46, 46, 46, 46, 46, 46, 46, 46, 46, 46, 46, 46, 46, 46, 46, 46, 46, 46, 46, 46, 35,
       CH_NL,
       35, 35, 35, 35, 35, 35, 35, 35, 35, 35, 35, 35, 35, 35, 35, 35, 35, 35, 35, 35, 35, 35, 35, 35 >>

InitExample == \E input \in {Example8, Example86} : InitWith("part1", input)

\* part1 on these texts: Part2Split and QueueEmpty are never enabled.
NextExample == Part1Call \/ Parse \/ ReduceSource \/ EnterSolver \/ Pop

SpecExample == InitExample /\ [][NextExample]_vars

\* C10: on the documented four-row example grid part1 returns "86".
C10_ExampleReturns86 ==
    (input_string = Example86 /\ Terminal)
    => (pc = "done" /\ output = <<CH_DIGIT_0 + 8, CH_DIGIT_0 + 6>>)

C10_Witness ==
    input_string = Example86 /\ pc = "done" /\ solver_result = <<86>>

\* ---- C11
\* C11: a popped vertex whose key has no outgoing edges (no entry in the
\* adjacency list) is a state without successors; the solver goes on with
\* the rest of the queue and ends in no other way than by a step count or
\* Unreachable.
C11_NoEdgesIsNoSuccessors ==
    (pc = "panicked" /\ current_input # <<>> /\ panic # "InvalidMapEntry")
    => panic = "Unreachable"

\* ---- C12
\* The edges the reduction recorded for source s (none: no entry).
EdgesOf(s) == IF s \in DOMAIN adjacency_list THEN adjacency_list[s] ELSE <<>>

\* The length of a shortest 4-connected walk over cells that hold no wall
\* from the cell of source s to the cell of key k (-1: there is none).
RegionDistance(s, k) ==
    WalkDistance(lines(current_input), {found_keys[s]}, {found_keys[s]}, found_keys[k], 0)

ReductionDone == pc \in {"solve", "done", "panicked"} /\ panic # "InvalidMapEntry"

\* C12: for every source (each key and the start) of a valid grid the
\* reduction records exactly one edge to each other key of the same
\* wall-free region, with the shortest 4-connected distance as its steps,
\* and no edge to a key outside the region, to the source itself or to the
\* start.
C12_OneShortestEdgePerRegionKey ==
    (ReductionDone /\ ValidGrid(current_input))
    => \A s \in DOMAIN found_keys :
         LET edges == EdgesOf(s)
             region == {k \in DOMAIN found_keys \ {s, CH_START} : RegionDistance(s, k) >= 0}
         IN /\ {edges[i].target_key : i \in 1 .. Len(edges)} = region
            /\ \A i, j \in 1 .. Len(edges) :
                  edges[i].target_key = edges[j].target_key => i = j
            /\ \A i \in 1 .. Len(edges) :
                  /\ edges[i].steps = RegionDistance(s, edges[i].target_key)
                  /\ edges[i].target_key # s
                  /\ edges[i].target_key # CH_START

\* A reduced valid grid with a source that has an edge and a key that a
\* wall keeps a source from.
C12_Witness ==
    /\ ReductionDone /\ ValidGrid(current_input)
    /\ \E s \in DOMAIN found_keys : Len(EdgesOf(s)) >= 1
    /\ \E s \in DOMAIN found_keys : \E k \in DOMAIN found_keys \ {s, CH_START} :
          RegionDistance(s, k) = -1

\* ---- C13
\* The breadth-first-search tree of a search from src over the map m: the
\* cells in the order they are discovered (each cell's neighbours taken in
\* the order of DIRECTIONS) and, for each cell but src, the cell it was
\* discovered from.
RECURSIVE DiscoveredFrom(_, _, _, _)
DiscoveredFrom(m, order, parent, i) ==
    IF i > Len(order) THEN parent
    ELSE LET p == order[i]
             around == [d \in 1 .. Len(DIRECTIONS) |->
                          <<p[1] + DIRECTIONS[d][1], p[2] + DIRECTIONS[d][2]>>]
             IsNew(q) == q \in DOMAIN m /\ q # order[1] /\ q \notin DOMAIN parent
             new == SelectSeq(around, IsNew)
         IN DiscoveredFrom(m, order \o new,
                           [q \in {new[n] : n \in 1 .. Len(new)} |-> p] @@ parent,
                           i + 1)

\* The doors with a key in the grid on the tree path from src to q, q included.
RECURSIVE PathDoors(_, _, _, _, _)
PathDoors(m, fk, parent, src, q) ==
    IF q = src THEN {}
    ELSE (IF IsUpper(m[q]) /\ to_ascii_lowercase(m[q]) \in DOMAIN fk
          THEN {to_ascii_lowercase(m[q])} ELSE {})
         \cup PathDoors(m, fk, parent, src, parent[q])

\* C13: the needed_keys of every recorded edge are exactly the keys of the
\* doors on the search-tree path from the source to the target whose key is
\* in the grid; a door on another branch of the search adds nothing.
C13_NeededKeysAreTreePathDoors ==
    (ReductionDone /\ ValidGrid(current_input))
    => \A s \in DOMAIN found_keys :
         LET edges == EdgesOf(s)
             parent == DiscoveredFrom(map, <<found_keys[s]>>, <<>>, 1)
         IN \A i \in 1 .. Len(edges) :
              KeysOfMask(edges[i].needed_keys)
                = PathDoors(map, found_keys, parent, found_keys[s],
                            found_keys[edges[i].target_key])

\* A source with an edge through a door whose key is in the grid and an
\* edge, on another branch, that passes no such door.
C13_Witness ==
    /\ ReductionDone /\ ValidGrid(current_input)
    /\ \E s \in DOMAIN found_keys :
         \E i, j \in 1 .. Len(EdgesOf(s)) :
            /\ EdgesOf(s)[i].needed_keys # 0
            /\ EdgesOf(s)[j].needed_keys = 0

\* ======================================================================
\* Three-key grids: the input family of the claims about the solver's queue
\* and cost table.
\* ======================================================================
\* The length of the corridor.
MaxCols3 == 5

KeyLetters3 == {CH_LOWER_A, CH_LOWER_A + 1, CH_LOWER_A + 2}

\* A corridor that holds the entrance and the three keys, each other cell
\* floor or a door of one of the keys.
InputGrids3 ==
    LET cells == 1 .. MaxCols3
        others == {CH_FLOOR} \cup {DoorOf(k) : k \in KeyLetters3}
    IN UNION { { [x \in cells |->
                    IF \E k \in DOMAIN f : f[k] = x
                    THEN CHOOSE k \in DOMAIN f : f[k] = x
                    ELSE g[x]]
                 : g \in [cells \ {f[k] : k \in DOMAIN f} -> others] }
               : f \in {h \in [KeyLetters3 \cup {CH_START} -> cells] :
                          \A j, k \in DOMAIN h : j # k => h[j] # h[k]} }

InitKeys3 == \E input \in InputGrids3 : InitWith("part1", input)

\* part1 on these texts: Part2Split is never enabled.
NextKeys3 == Part1Call \/ Parse \/ ReduceSource \/ EnterSolver \/ Pop \/ QueueEmpty

SpecKeys3 == InitKeys3 /\ [][NextKeys3]_vars

\* ---- C14
\* The vertex a turn of the solver's loop popped, and those it pushed.
PoppedNow == to_visit \ to_visit'
PushedNow == to_visit' \ to_visit

\* v was made from vertex u by edge e of u's key.
MadeBy(v, u, e) ==
    /\ KeysOfMask(e.needed_keys) \subseteq KeysOfMask(u.gathered_keys)
    /\ v.at_key = e.target_key
    /\ v.steps = u.steps + e.steps
    /\ KeysOfMask(v.gathered_keys) = KeysOfMask(u.gathered_keys) \cup {e.target_key}

QueuedHoldOwnKey ==
    pc = "solve" => \A v \in to_visit :
                       v = InitialVertex \/ v.at_key \in KeysOfMask(v.gathered_keys)

\* C14: every vertex pushed on the queue was made by an edge of the popped
\* vertex whose needed_keys were among the popped vertex's gathered_keys,
\* its gathered_keys being those plus the edge's target key; so every
\* queued vertex but the initial one holds the key it is at.
C14_PushedByPermittedEdge ==
    /\ []QueuedHoldOwnKey
    /\ [][pc = "solve" =>
            \A v \in PushedNow : \E u \in PoppedNow :
               \E i \in 1 .. Len(EdgesOf(u.at_key)) : MadeBy(v, u, EdgesOf(u.at_key)[i])]_vars

\* A queued vertex with two keys gathered that an edge through a door leads to.
C14_Witness ==
    /\ pc = "solve"
    /\ \E v \in to_visit :
         /\ Cardinality(KeysOfMask(v.gathered_keys)) >= 2
         /\ \E s \in DOMAIN adjacency_list : \E i \in 1 .. Len(adjacency_list[s]) :
               /\ adjacency_list[s][i].target_key = v.at_key
               /\ adjacency_list[s][i].needed_keys # 0
               /\ KeysOfMask(adjacency_list[s][i].needed_keys) \subseteq KeysOfMask(v.gathered_keys)

\* ---- C15
PairOf(v) == <<v.at_key, v.gathered_keys>>

\* The best-cost table bounds the queue: every queued vertex but the
\* initial one has an entry, of at most its steps.
QueuedAreRecorded ==
    pc = "solve" => \A v \in to_visit \ {InitialVertex} :
                       /\ PairOf(v) \in DOMAIN cost_for_keys
                       /\ cost_for_keys[PairOf(v)] <= v.steps

\* One step of a solve call: no entry is removed or raised; a vertex is
\* pushed only with fewer steps than its pair's recorded value (none: any),
\* and the pair's recorded value is then its steps; an entry is new or
\* lowered only by such a push.
TableOnlyImproves ==
    /\ \A p \in DOMAIN cost_for_keys :
          p \in DOMAIN cost_for_keys' /\ cost_for_keys'[p] <= cost_for_keys[p]
    /\ \A v \in PushedNow :
          /\ PairOf(v) \in DOMAIN cost_for_keys => v.steps < cost_for_keys[PairOf(v)]
          /\ PairOf(v) \in DOMAIN cost_for_keys'
          /\ cost_for_keys'[PairOf(v)] = v.steps
    /\ \A p \in DOMAIN cost_for_keys' :
          (p \notin DOMAIN cost_for_keys \/ cost_for_keys'[p] < cost_for_keys[p])
          => \E v \in PushedNow : PairOf(v) = p

\* C15: throughout one solve call the best-cost table only grows or
\* improves, a successor is pushed only when its steps are strictly smaller
\* than the recorded value, and the recorded value is the smallest steps of
\* any vertex pushed for the pair.
C15_CostTableOnlyImproves ==
    /\ []QueuedAreRecorded
    /\ [][pc = "solve" => TableOnlyImproves]_vars

\* A table in which an entry was lowered: a queued vertex with more steps
\* than its pair's recorded value.
C15_Witness ==
    /\ pc = "solve"
    /\ \E v \in to_visit \ {InitialVertex} : cost_for_keys[PairOf(v)] < v.steps

\* ---- C16
\* C16: each pop returns a vertex whose steps are the least of all queued
\* vertices, so the steps of successively popped vertices never decrease:
\* the popped vertex's steps are at most those of everything queued before
\* and after its turn.
C16_PopsInStepOrder ==
    [][(pc = "solve" /\ to_visit # {}) =>
         /\ Cardinality(PoppedNow) = 1
         /\ \A u \in PoppedNow :
               /\ \A w \in to_visit : u.steps <= w.steps
               /\ \A w \in to_visit' : u.steps <= w.steps]_vars

\* A queue, after the first pop, that holds vertices of different steps.
C16_Witness ==
    /\ pc = "solve" /\ InitialVertex \notin to_visit
    /\ \E v, w \in to_visit : v.steps < w.steps

\* ---- C17
\* (number of keys) x 2^(number of keys): the number of pairs of a key of
\* the grid and a set of keys of the grid.
PairBound == Cardinality(KeysOfMask(all_keys_bitset)) * 2 ^ Cardinality(KeysOfMask(all_keys_bitset))

TableWithinPairBound ==
    pc \in {"solve", "done", "panicked"}
    => /\ \A p \in DOMAIN cost_for_keys :
             /\ p[1] \in KeysOfMask(all_keys_bitset)
             /\ KeysOfMask(p[2]) \subseteq KeysOfMask(all_keys_bitset)
       /\ Cardinality(DOMAIN cost_for_keys) <= PairBound

\* More steps than any vertex has: a vertex's route passes no pair twice
\* and an edge is shorter than the text.
StepCap == (PairBound + 1) * Len(current_input)

RECURSIVE SumOfCosts(_, _)
SumOfCosts(cost, P) ==
    IF P = {} THEN 0
    ELSE LET p == CHOOSE x \in P : TRUE
         IN cost[p] + SumOfCosts(cost, P \ {p})

\* What every turn of the solver's loop lowers: a pop takes one vertex from
\* the queue, and a push adds one while lowering a recorded cost (a pair
\* without an entry counts as StepCap).
SolveMeasure(tv, cost) ==
    2 * (SumOfCosts(cost, DOMAIN cost) + (PairBound - Cardinality(DOMAIN cost)) * StepCap)
    + Cardinality(tv)

\* C17: the solver terminates, returning a step count or running its queue
\* empty: the best-cost table holds at most (number of keys) x 2^(number of
\* keys) pairs, every push to a recorded pair is strictly below the recorded
\* cost, and so every turn of the loop lowers a measure that is never
\* negative.
C17_SolverTerminates ==
    /\ []TableWithinPairBound
    /\ [](pc = "solve" => (\A p \in DOMAIN cost_for_keys : cost_for_keys[p] < StepCap))
    /\ [][(pc = "solve" /\ to_visit # {}) =>
            /\ \A v \in PushedNow :
                  PairOf(v) \in DOMAIN cost_for_keys => v.steps < cost_for_keys[PairOf(v)]
            /\ SolveMeasure(to_visit', cost_for_keys') < SolveMeasure(to_visit, cost_for_keys)
            /\ SolveMeasure(to_visit', cost_for_keys') >= 0]_vars

\* A solve that ended after its table came to hold a pair for every key
\* and more.
C17_Witness ==
    /\ Terminal
    /\ Cardinality(DOMAIN cost_for_keys) > Cardinality(KeysOfMask(all_keys_bitset)) + 1

\* ---- C18
\* The middle index of an odd length.
Middle(n) == (n - 1) \div 2

\* A rectangular grid of odd width and height, each at least 3, whose single
\* start marker is at the centre cell.
StartAtCentre(input) ==
    LET ls == lines(input)
    IN /\ Len(ls) >= 3 /\ Len(ls) % 2 = 1
       /\ Len(ls[1]) >= 3 /\ Len(ls[1]) % 2 = 1
       /\ \A y \in 1 .. Len(ls) : Len(ls[y]) = Len(ls[1])
       /\ CountOf(input, CH_START) = 1
       /\ CharAt(ls, <<Middle(Len(ls[1])), Middle(Len(ls))>>) = CH_START

\* The cell of the sub-grids that the cell p of the grid goes to: the
\* sub-grid (1 top left, 2 top right, 3 bottom left, 4 bottom right) and the
\* position in it, rows and columns in their order.
SubGridCell(ls, p) ==
    LET cx == Middle(Len(ls[1]))
        cy == Middle(Len(ls))
    IN [grid |-> (IF p[2] <= cy THEN 0 ELSE 2) + (IF p[1] <= cx THEN 1 ELSE 2),
        at |-> <<IF p[1] <= cx THEN p[1] ELSE p[1] - cx - 1,
                 IF p[2] <= cy THEN p[2] ELSE p[2] - cy - 1>>]

\* Every cell of the transformed grid is in exactly one sub-grid, in order.
CellsSplitInOrder(input) ==
    LET ls == lines(input)
        centre == <<Middle(Len(ls[1])), Middle(Len(ls))>>
        qs == [q \in 1 .. 4 |-> lines(quadrants[q])]
    IN /\ Len(quadrants) = 4
       /\ \A p \in Positions(ls) :
             LET c == SubGridCell(ls, p)
             IN /\ c.at \in Positions(qs[c.grid])
                /\ CharAt(qs[c.grid], c.at) = RewrittenAround(centre, p, CharAt(ls, p))
       /\ \A q \in 1 .. 4 :
             \A r \in Positions(qs[q]) :
                Cardinality({p \in Positions(ls) :
                               SubGridCell(ls, p) = [grid |-> q, at |-> r]}) = 1

OneStartEach == \A q \in 1 .. 4 : CountOf(quadrants[q], CH_START) = 1

\* Key k is in exactly one sub-grid, once.
InOneSubGrid(k) ==
    Cardinality({<<q, i>> \in (1 .. 4) \X (1 .. Len(input_string)) :
                    i <= Len(quadrants[q]) /\ quadrants[q][i] = k}) = 1

\* The keys of the grid on the 3x3 region around the start.
KeysAroundStart(input) ==
    LET ls == lines(input)
        centre == <<Middle(Len(ls[1])), Middle(Len(ls))>>
    IN {CharAt(ls, p) : p \in {r \in Positions(ls) :
                                  /\ IsLower(CharAt(ls, r))
                                  /\ RewrittenAround(centre, r, CharAt(ls, r)) # CharAt(ls, r)}}

\* The sum of the answers of the four sub-grids, when each has one.
SumOfAnswers ==
    LET v == [q \in 1 .. 4 |-> steps_to_gather_all_keys(quadrants[q])]
    IN IF \A q \in 1 .. 4 : v[q].result # <<>>
       THEN <<v[1].result[1] + v[2].result[1] + v[3].result[1] + v[4].result[1]>>
       ELSE <<>>

ReturnsSumOfAnswers == pc = "done" => (SumOfAnswers # <<>> /\ output = to_string(SumOfAnswers[1]))

\* C18 as stated: on such a grid every cell is in exactly one sub-grid, each
\* sub-grid holds one of the new start markers, every key of the input is in
\* exactly one sub-grid, and the value returned is the sum of the four
\* answers.
C18_SplitKeepsEveryKey ==
    (op = "part2" /\ quadrants # <<>> /\ StartAtCentre(input_string))
    => /\ CellsSplitInOrder(input_string)
       /\ OneStartEach
       /\ \A k \in KeyLettersIn(input_string) : InOneSubGrid(k)
       /\ ReturnsSumOfAnswers

\* C18 amended: the same, for every key of the input that is not on the
\* rewritten 3x3 region; a key on that region is overwritten and is in no
\* sub-grid.
C18_SplitKeepsKeysOffCentre ==
    (op = "part2" /\ quadrants # <<>> /\ StartAtCentre(input_string))
    => /\ CellsSplitInOrder(input_string)
       /\ OneStartEach
       /\ \A k \in KeyLettersIn(input_string) \ KeysAroundStart(input_string) : InOneSubGrid(k)
       /\ \A k \in KeysAroundStart(input_string) :
             \A q \in 1 .. 4 : CountOf(quadrants[q], k) = 0
       /\ ReturnsSumOfAnswers

\* A finished part2 call on such a grid with a key off the centre region
\* and a sum that is not 0.
C18_Witness ==
    /\ op = "part2" /\ pc = "done" /\ StartAtCentre(input_string)
    /\ KeyLettersIn(input_string) \ KeysAroundStart(input_string) # {}
    /\ partial_sum > 0

\* ---- C19
\* The keys bit_mask is evaluated on in a call: by the parse (line 55) on
\* the key cells, by the reduction (line 95) on the keys of the doors it
\* counts, by the solver (line 184) on the targets of edges.
BitMaskArguments ==
    (DOMAIN found_keys \ {CH_START})
    \cup {to_ascii_lowercase(map[p]) :
            p \in {q \in DOMAIN map : IsUpper(map[q])
                                      /\ to_ascii_lowercase(map[q]) \in DOMAIN found_keys}}
    \cup UNION { {adjacency_list[s][i].target_key : i \in 1 .. Len(adjacency_list[s])}
                 : s \in DOMAIN adjacency_list }

KeyRange == CH_LOWER_A .. CH_LOWER_Z

\* Every letter has a bit of its own that fits a 32-bit mask.
BitsDistinctIn32 ==
    /\ \A k \in KeyRange : bit_mask(k) >= 1 /\ (bit_mask(k) \div (2 ^ 16)) < 2 ^ 16
    /\ \A k, l \in KeyRange : bit_mask(k) = bit_mask(l) => k = l

\* C19: bit_mask is evaluated on keys 'a'..'z' only, never on the start
\* key: the start cell is stored as floor, no edge has the start as its
\* target, the initial vertex has gathered_keys 0 and every other queued
\* vertex is at a key; each letter's bit is its own and fits 32 bits.
C19_BitMaskOnLettersOnly ==
    /\ BitMaskArguments \subseteq KeyRange
    /\ \A p \in DOMAIN map : map[p] # CH_START
    /\ CH_START \in DOMAIN found_keys => map[found_keys[CH_START]] = CH_FLOOR
    /\ InitialVertex.gathered_keys = 0
    /\ \A v \in to_visit : v = InitialVertex \/ v.at_key \in KeyRange
    /\ BitsDistinctIn32

\* A solve under way on a grid with a counted door, an edge and a queued
\* vertex at a key.
C19_Witness ==
    /\ pc = "solve" /\ CH_START \in DOMAIN found_keys
    /\ \E p \in DOMAIN map : IsUpper(map[p]) /\ to_ascii_lowercase(map[p]) \in DOMAIN found_keys
    /\ \E s \in DOMAIN adjacency_list : Len(adjacency_list[s]) >= 1
    /\ \E v \in to_visit : v # InitialVertex

\* ------------------------------------------- day23.rs: run_simulation
\* The computers of the network (50 in the source).
NumComputers == 2

\* The packets one computer emits in one round, at most.
MaxChunks == 1

\* The address of the NAT.
NAT_ADDRESS == 255

\* The value both NAT variables start with.
PLACEHOLDER == <<-1, -1>>

\* The addresses a computer may write: the computers', one past the last
\* computer (an index outside input_queues) and the NAT's.
Addresses == (0 .. NumComputers) \cup {NAT_ADDRESS}

\* Program::run_for_output().chunks(3): what a computer emits in a round is
\* any sequence of (destination, X, Y) triples.
Chunks == Addresses \X {1} \X {-1, 1, 2}

ChunkSeqs == UNION { [1 .. n -> Chunks] : n \in 0 .. MaxChunks }

OutputsOfRound == [0 .. NumComputers - 1 -> ChunkSeqs]

\* i64::to_string: a minus sign ('-', 45) before the digits of a negative.
i64_to_string(n) == IF n < 0 THEN <<45>> \o to_string(0 - n) ELSE to_string(n)

\* The inner loop over one computer's chunks; it ends at the return of
\* part 1 or at the index panic of a destination without a queue.
RECURSIVE ChunkLoop(_, _, _)
ChunkLoop(chunks, p1, st) ==
    IF chunks = <<>> \/ st.returned # <<>> \/ st.panicked THEN st
    ELSE LET chunk == Head(chunks)
             destination_address == chunk[1]
             packet == <<chunk[2], chunk[3]>>
             next == IF destination_address = NAT_ADDRESS
                     THEN IF p1
                          THEN [st EXCEPT !.returned = <<i64_to_string(packet[2])>>,
                                          !.sent = @ \cup {packet}]
                          ELSE [st EXCEPT !.last_packet_to_nat = packet,
                                          !.sent = @ \cup {packet}]
                     ELSE IF destination_address \notin DOMAIN st.input_queues
                          THEN [st EXCEPT !.network_idle = FALSE, !.panicked = TRUE]
                          ELSE [st EXCEPT !.network_idle = FALSE,
                                          !.input_queues[destination_address] = Append(@, packet)]
         IN ChunkLoop(Tail(chunks), p1, next)

\* The loop over the programs, in address order.
RECURSIVE ProgramLoop(_, _, _, _)
ProgramLoop(outs, p1, st, i) ==
    IF i = NumComputers \/ st.returned # <<>> \/ st.panicked THEN st
    ELSE ProgramLoop(outs, p1, ChunkLoop(outs[i], p1, st), i + 1)

\* The NAT at the end of a round: on an idle network it returns when the Y
\* it holds is the Y it emitted last, and else emits what it holds to
\* computer 0.
NatTurn(st, emitted) ==
    IF ~st.network_idle
    THEN [returned |-> <<>>, emitted |-> emitted, input_queues |-> st.input_queues,
          delivered |-> {}]
    ELSE IF st.last_packet_to_nat[2] = emitted[2]
    THEN [returned |-> <<i64_to_string(st.last_packet_to_nat[2])>>, emitted |-> emitted,
          input_queues |-> st.input_queues, delivered |-> {}]
    ELSE [returned |-> <<>>, emitted |-> st.last_packet_to_nat,
          input_queues |-> [st.input_queues EXCEPT ![0] = Append(@, st.last_packet_to_nat)],
          delivered |-> {st.last_packet_to_nat}]

keysVars == <<op, input_string, pc, quadrants, quadrant_index, partial_sum,
              current_input, output, panic, callVars>>

\* No operation of day18.rs is called.
KeysOff ==
    /\ op = "" /\ input_string = <<>> /\ pc = "off"
    /\ quadrants = <<>> /\ quadrant_index = 0 /\ partial_sum = 0
    /\ current_input = <<>> /\ map = Empty /\ found_keys = Empty
    /\ all_keys_bitset = 0 /\ pending = {} /\ adjacency_list = Empty
    /\ to_visit = {} /\ cost_for_keys = Empty /\ solver_result = <<>>
    /\ output = <<>> /\ panic = ""

\* part1 (run_simulation(_, true)) or part2 (run_simulation(_, false)) is called.
InitNet ==
    /\ KeysOff
    /\ part1 \in BOOLEAN
    /\ net_pc = "call"
    /\ input_queues = <<>>
    /\ last_packet_to_nat = <<>>
    /\ last_emitted_packet_from_nat = <<>>
    /\ net_output = <<>>
    /\ sent_to_nat = {}
    /\ nat_delivered = {}

\* run_simulation up to its loop: the queues are empty and both NAT
\* variables hold the placeholder.
NetCall ==
    /\ net_pc = "call"
    /\ input_queues' = [i \in 0 .. NumComputers - 1 |-> <<>>]
    /\ last_packet_to_nat' = PLACEHOLDER
    /\ last_emitted_packet_from_nat' = PLACEHOLDER
    /\ net_pc' = "loop"
    /\ UNCHANGED <<part1, net_output, sent_to_nat, nat_delivered>>
    /\ UNCHANGED keysVars

\* One turn of the loop: every queue is drained into its program, every
\* program's output is routed, and the NAT acts on an idle network.
Round ==
    /\ net_pc = "loop"
    /\ \E outs \in OutputsOfRound :
         LET drained == [i \in DOMAIN input_queues |-> <<>>]
             st0 == [input_queues |-> drained,
                     last_packet_to_nat |-> last_packet_to_nat,
                     network_idle |-> TRUE, returned |-> <<>>, panicked |-> FALSE,
                     sent |-> sent_to_nat]
             st == ProgramLoop(outs, part1, st0, 0)
             nat == NatTurn(st, last_emitted_packet_from_nat)
         IN /\ sent_to_nat' = st.sent
            /\ last_packet_to_nat' = st.last_packet_to_nat
            /\ IF st.panicked
               THEN /\ net_pc' = "panicked"
                    /\ input_queues' = st.input_queues
                    /\ UNCHANGED <<last_emitted_packet_from_nat, net_output, nat_delivered>>
               ELSE IF st.returned # <<>>
               THEN /\ net_pc' = "returned"
                    /\ net_output' = st.returned[1]
                    /\ input_queues' = st.input_queues
                    /\ UNCHANGED <<last_emitted_packet_from_nat, nat_delivered>>
               ELSE /\ net_pc' = IF nat.returned # <<>> THEN "returned" ELSE "loop"
                    /\ net_output' = IF nat.returned # <<>> THEN nat.returned[1] ELSE net_output
                    /\ input_queues' = nat.input_queues
                    /\ last_emitted_packet_from_nat' = nat.emitted
                    /\ nat_delivered' = nat_delivered \cup nat.delivered
    /\ UNCHANGED part1
    /\ UNCHANGED keysVars

NextNet == NetCall \/ Round

SpecNet == InitNet /\ [][NextNet]_vars

\* The value returned is the Y of a packet some computer sent to address 255.
ReturnedWasSentToNat ==
    net_pc = "returned" => \E p \in sent_to_nat : net_output = i64_to_string(p[2])

\* In NAT mode the value returned is a Y the NAT delivered to computer 0.
ReturnedWasDelivered ==
    (net_pc = "returned" /\ ~part1) =>
        \E p \in nat_delivered : net_output = i64_to_string(p[2])

\* The placeholder is the value held by the NAT as long as no computer has
\* written to address 255.
PlaceholderReturned == net_pc = "returned" /\ sent_to_nat = {}

PlaceholderDelivered == PLACEHOLDER \in nat_delivered

\* C20: any value run_simulation returns is the Y of a packet that some
\* computer sent to address 255; in NAT mode it is moreover a Y that the NAT
\* delivered to computer 0's queue on an earlier idle round; the placeholder
\* (-1, -1) is never returned and never delivered to computer 0.
C20_ReturnsYOfNatPacket ==
    /\ ReturnedWasSentToNat
    /\ ReturnedWasDelivered
    /\ ~PlaceholderReturned
    /\ ~PlaceholderDelivered

====
